---- MODULE Spec2Model ----
(***************************************************************************)
(* dsha256/dispatcher: reconstruction of a flight itinerary from a list of *)
(* tickets (internal/dispatcher) and the HTTP handler that serves it       *)
(* (internal/handler).                                                     *)
(*                                                                         *)
(* Airport codes are modelled by the integers 1..NumNodes; the order of    *)
(* the integers is the lexicographic order Go's string comparison gives    *)
(* the codes.  A Go map is a function over Nodes whose absent keys read as *)
(* the zero value; the keys present are those the code has written.        *)
(***************************************************************************)
EXTENDS Integers, Sequences, FiniteSets, TLC

\* ------------------------------------------------------------------ bounds
NumNodes == 3
MaxTickets == 3
MaxRagged == 2
NumWalkNodes == 2
MaxWalkTickets == 3

\* the zero value "" of a node name
NoNode == 0

Nodes == 1..NumNodes
WalkNodes == 1..NumWalkNodes

ErrNil == "nil"
ErrMultipleSameDestination == "multiple same destination"
ErrCycleInItinerary == "cycle in itinerary"
ErrDifferentStartingPoints == "different starting points"

StatusNone == 0
StatusOK == 200
StatusBadRequest == 400
StatusMethodNotAllowed == 405
StatusInternalServerError == 500

\* ------------------------------------------------------------------ inputs
SeqsUpTo(S, n) == UNION {[1..k -> S] : k \in 0..n}

\* ticket lists whose tickets are all [source, destination] pairs
PairLists == SeqsUpTo([1..2 -> Nodes], MaxTickets)

\* ticket lists in which some ticket is not a pair: [][]string puts no
\* constraint on the length of the inner slices
RaggedTickets == UNION {[1..k -> 1..2] : k \in 0..3}
RaggedLists ==
    {tk \in SeqsUpTo(RaggedTickets, MaxRagged) : \E i \in 1..Len(tk) : Len(tk[i]) # 2}

\* the tickets of the test "Multiple possible paths", which admit two trails:
\* JFK-SFO, JFK-ATL, SFO-ATL, ATL-JFK with ATL = 1, JFK = 2, SFO = 3
TestMultiplePaths == <<<<2, 3>>, <<2, 1>>, <<3, 1>>, <<1, 2>>>>

\* a request body: either it does not decode, or it decodes to a ticket list
Bodies ==
    {[decodes |-> FALSE, tickets |-> <<>>]}
        \cup {[decodes |-> TRUE, tickets |-> tk] : tk \in PairLists \cup RaggedLists \cup {TestMultiplePaths}}

Methods == {"POST", "GET"}

\* the orders in which a range over a map with key set S can visit the keys
Perms(S) ==
    {f \in [1..Cardinality(S) -> S] : \A i, j \in 1..Cardinality(S) : f[i] = f[j] => i = j}

\* the keys present in a counting map
Keys(m) == {n \in Nodes : m[n] > 0}

EmptyGraph == [n \in Nodes |-> <<>>]
EmptyDegree == [n \in Nodes |-> 0]

\* ------------------------------------------------------------------ core
\* validateTickets: "ok", "dup" (ErrMultipleSameDestination), or "panic" when
\* ticket[0] or ticket[1] is out of range
RECURSIVE validateFrom(_, _, _)
validateFrom(tickets, i, ticketCount) ==
    IF i > Len(tickets) THEN "ok"
    ELSE IF Len(tickets[i]) < 2 THEN "panic"
    ELSE LET key == <<tickets[i][1], tickets[i][2]>>
             cnt == [ticketCount EXCEPT ![key] = @ + 1]
         IN  IF cnt[key] > 1 THEN "dup" ELSE validateFrom(tickets, i + 1, cnt)

validateTicketsKeyDestinationOnly(tickets) ==
    IF \E i \in 1..Len(tickets) : Len(tickets[i]) < 2 THEN "panic"
    ELSE IF \E i, j \in 1..Len(tickets) : i < j /\ tickets[i][2] = tickets[j][2]
         THEN "dup" ELSE "ok"

validateTickets(tickets) ==
    validateFrom(tickets, 1, [k \in (1..2) \X (1..2) \cup Nodes \X Nodes |-> 0])

\* the first loop of buildGraph: one adjacency entry and two counts per ticket
RECURSIVE addTickets(_, _, _)
addTickets(tickets, i, acc) ==
    IF i > Len(tickets) THEN acc
    ELSE LET src == tickets[i][1]
             dst == tickets[i][2]
         IN  addTickets(tickets, i + 1,
                 [graph     |-> [acc.graph EXCEPT ![src] = Append(@, dst)],
                  outDegree |-> [acc.outDegree EXCEPT ![src] = @ + 1],
                  inDegree  |-> [acc.inDegree EXCEPT ![dst] = @ + 1]])

RECURSIVE insertBy(_, _, _)
insertBy(s, x, desc) ==
    IF s = <<>> THEN <<x>>
    ELSE IF (desc /\ x > Head(s)) \/ (~desc /\ x < Head(s)) THEN <<x>> \o s
    ELSE <<Head(s)>> \o insertBy(Tail(s), x, desc)

RECURSIVE sortBy(_, _)
sortBy(s, desc) ==
    IF s = <<>> THEN <<>> ELSE insertBy(sortBy(Tail(s), desc), Head(s), desc)

sortSliceAscending(s) == sortBy(s, FALSE)

sortSliceNone(s) == s

\* sort.Slice with less(i, j) = graph[src][i] > graph[src][j]: descending
sortSlice(s) == sortBy(s, TRUE)

buildGraph(tickets) ==
    LET a == addTickets(tickets, 1,
                 [graph |-> EmptyGraph, outDegree |-> EmptyDegree, inDegree |-> EmptyDegree])
    IN  [a EXCEPT !.graph = [n \in Nodes |-> sortSlice(a.graph[n])]]

\* the first loop of findStartingPoint, visiting the keys of outDegree in `order`
RECURSIVE scanStart(_, _, _, _, _)
scanStart(order, i, outDegree, inDegree, startCandidates) ==
    IF i > Len(order) THEN [validStart |-> TRUE, startCandidates |-> startCandidates]
    ELSE LET node == order[i]
             diff == outDegree[node] - inDegree[node]
         IN  IF diff = 1
             THEN scanStart(order, i + 1, outDegree, inDegree, Append(startCandidates, node))
             ELSE IF diff < -1 \/ diff > 1
             THEN [validStart |-> FALSE, startCandidates |-> startCandidates]
             ELSE scanStart(order, i + 1, outDegree, inDegree, startCandidates)

RECURSIVE scanStartStrict(_, _, _, _, _)
scanStartStrict(order, i, outDegree, inDegree, startCandidates) ==
    IF i > Len(order) THEN [validStart |-> TRUE, startCandidates |-> startCandidates]
    ELSE LET node == order[i]
             diff == outDegree[node] - inDegree[node]
         IN  IF diff = 1
             THEN scanStartStrict(order, i + 1, outDegree, inDegree,
                                  Append(startCandidates, node))
             ELSE IF diff < 0 \/ diff > 1
             THEN [validStart |-> FALSE, startCandidates |-> startCandidates]
             ELSE scanStartStrict(order, i + 1, outDegree, inDegree, startCandidates)

startFrom(s, order, outDegree, inDegree) ==
    IF ~s.validStart \/ Len(s.startCandidates) > 1
    THEN [start |-> NoNode, err |-> ErrDifferentStartingPoints]
    ELSE IF Len(s.startCandidates) = 1
    THEN [start |-> s.startCandidates[1], err |-> ErrNil]
    ELSE IF \E i \in 1..Len(order) : outDegree[order[i]] # inDegree[order[i]]
    THEN [start |-> NoNode, err |-> ErrDifferentStartingPoints]
    ELSE [start |-> NoNode, err |-> ErrDifferentStartingPoints]

findStartingPointStrict(order, outDegree, inDegree) ==
    startFrom(scanStartStrict(order, 1, outDegree, inDegree, <<>>), order, outDegree, inDegree)

findStartingPoint(order, outDegree, inDegree) ==
    startFrom(scanStart(order, 1, outDegree, inDegree, <<>>), order, outDegree, inDegree)

\* validateEndPoints, visiting the keys of inDegree in `order`
RECURSIVE scanEnd(_, _, _, _, _)
scanEnd(order, i, outDegree, inDegree, endCandidates) ==
    IF i > Len(order) THEN [err |-> ErrNil, endCandidates |-> endCandidates]
    ELSE LET node == order[i]
             diff == inDegree[node] - outDegree[node]
         IN  IF diff = 1
             THEN scanEnd(order, i + 1, outDegree, inDegree, endCandidates + 1)
             ELSE IF diff < -1 \/ diff > 1
             THEN [err |-> ErrDifferentStartingPoints, endCandidates |-> endCandidates]
             ELSE scanEnd(order, i + 1, outDegree, inDegree, endCandidates)

RECURSIVE scanEndStrict(_, _, _, _, _)
scanEndStrict(order, i, outDegree, inDegree, endCandidates) ==
    IF i > Len(order) THEN [err |-> ErrNil, endCandidates |-> endCandidates]
    ELSE LET node == order[i]
             diff == inDegree[node] - outDegree[node]
         IN  IF diff = 1
             THEN scanEndStrict(order, i + 1, outDegree, inDegree, endCandidates + 1)
             ELSE IF diff < 0 \/ diff > 1
             THEN [err |-> ErrDifferentStartingPoints, endCandidates |-> endCandidates]
             ELSE scanEndStrict(order, i + 1, outDegree, inDegree, endCandidates)

validateEndPointsStrict(order, startCandidates, outDegree, inDegree) ==
    LET s == scanEndStrict(order, 1, outDegree, inDegree, 0)
    IN  IF s.err # ErrNil THEN s.err
        ELSE IF Len(startCandidates) = 1 /\ s.endCandidates # 1
        THEN ErrDifferentStartingPoints
        ELSE ErrNil

validateEndPoints(order, startCandidates, outDegree, inDegree) ==
    LET s == scanEnd(order, 1, outDegree, inDegree, 0)
    IN  IF s.err # ErrNil THEN s.err
        ELSE IF Len(startCandidates) = 1 /\ s.endCandidates # 1
        THEN ErrDifferentStartingPoints
        ELSE ErrNil

\* one iteration of the loop of findPath on w = [stack, graph, result]
walkIterKeepEdge(w) ==
    LET curr  == w.stack[Len(w.stack)]
        dests == w.graph[curr]
    IN  IF Len(dests) > 0
        THEN [stack |-> Append(w.stack, dests[Len(dests)]), graph |-> w.graph,
              result |-> w.result]
        ELSE [stack |-> SubSeq(w.stack, 1, Len(w.stack) - 1), graph |-> w.graph,
              result |-> Append(w.result, curr)]

walkIterTakeFirst(w) ==
    LET curr  == w.stack[Len(w.stack)]
        dests == w.graph[curr]
    IN  IF Len(dests) > 0
        THEN [stack  |-> Append(w.stack, dests[1]),
              graph  |-> [w.graph EXCEPT ![curr] = SubSeq(dests, 1, Len(dests) - 1)],
              result |-> w.result]
        ELSE [stack  |-> SubSeq(w.stack, 1, Len(w.stack) - 1),
              graph  |-> w.graph,
              result |-> Append(w.result, curr)]

walkIter(w) ==
    LET curr  == w.stack[Len(w.stack)]
        dests == w.graph[curr]
    IN  IF Len(dests) > 0
        THEN [stack  |-> Append(w.stack, dests[Len(dests)]),
              graph  |-> [w.graph EXCEPT ![curr] = SubSeq(dests, 1, Len(dests) - 1)],
              result |-> w.result]
        ELSE [stack  |-> SubSeq(w.stack, 1, Len(w.stack) - 1),
              graph  |-> w.graph,
              result |-> Append(w.result, curr)]

reverseNot(s) == s

\* the in-place reversal that ends findPath
reverse(s) == [i \in 1..Len(s) |-> s[Len(s) + 1 - i]]

RECURSIVE runWalk(_)
runWalk(w) == IF Len(w.stack) = 0 THEN w ELSE runWalk(walkIter(w))

findPath(start, graph) ==
    reverse(runWalk([stack |-> <<start>>, graph |-> graph, result |-> <<>>]).result)

cycleCheckOffByOne(result) ==
    IF Len(result) >= 2 /\ result[1] = result[Len(result) - 1]
    THEN [path |-> <<>>, err |-> ErrCycleInItinerary]
    ELSE [path |-> result, err |-> ErrNil]

\* the post-condition check of ReconstructItinerary on the walked sequence
cycleCheck(result) ==
    IF Len(result) >= 2 /\ result[1] = result[Len(result)]
    THEN [path |-> <<>>, err |-> ErrCycleInItinerary]
    ELSE [path |-> result, err |-> ErrNil]

\* ReconstructItinerary as a function of the tickets and of the two map
\* iteration orders; "panic" stands for the run-time panic of an index out of range
ReconstructItinerary(tickets, startOrder, endOrder) ==
    IF Len(tickets) = 0 THEN [path |-> <<>>, err |-> ErrNil]
    ELSE LET v == validateTickets(tickets) IN
    IF v = "panic" THEN [path |-> <<>>, err |-> "panic"]
    ELSE IF v = "dup" THEN [path |-> <<>>, err |-> ErrMultipleSameDestination]
    ELSE LET g == buildGraph(tickets)
             s == findStartingPoint(startOrder, g.outDegree, g.inDegree)
         IN
    IF s.err # ErrNil THEN [path |-> <<>>, err |-> s.err]
    ELSE LET e == validateEndPoints(endOrder, <<s.start>>, g.outDegree, g.inDegree) IN
    IF e # ErrNil THEN [path |-> <<>>, err |-> e]
    ELSE cycleCheck(findPath(s.start, g.graph))

isBadRequestErrorNoStart(err) ==
    err = ErrMultipleSameDestination \/ err = ErrCycleInItinerary

isBadRequestError(err) ==
    \/ err = ErrDifferentStartingPoints
    \/ err = ErrMultipleSameDestination
    \/ err = ErrCycleInItinerary

\* ------------------------------------------------------------------ state
VARIABLES
    method,      \* r.Method
    body,        \* r.Body
    pc,          \* where the request is
    tickets,     \* req.Tickets, the argument of ReconstructItinerary
    coreCalled,  \* whether the handler has called the dispatcher
    graph, outDegree, inDegree,
    start,       \* the resolved start node
    stack, result,
    ret,         \* what ReconstructItinerary returned: [path, err]
    status,      \* the status code written
    linearPath,  \* data.linear_path of the success response
    iters,       \* iterations of the loop of findPath so far
    used,        \* the edges the walk has consumed, in order
    prev         \* the outcome of the previous call on a permutation of tickets

vars == <<method, body, pc, tickets, coreCalled, graph, outDegree, inDegree, start,
          stack, result, ret, status, linearPath, iters, used, prev>>

NoReturn == [path |-> <<>>, err |-> "none"]
NoPrev == [path |-> <<>>, err |-> "none"]

coreVars == <<graph, outDegree, inDegree, start, stack, result, iters, used>>

FreshCore ==
    /\ graph = EmptyGraph
    /\ outDegree = EmptyDegree
    /\ inDegree = EmptyDegree
    /\ start = NoNode
    /\ stack = <<>>
    /\ result = <<>>
    /\ iters = 0
    /\ used = <<>>

Init ==
    /\ method \in Methods
    /\ body \in Bodies
    /\ pc = "recv"
    /\ tickets = <<>>
    /\ coreCalled = FALSE
    /\ FreshCore
    /\ ret = NoReturn
    /\ status = StatusNone
    /\ linearPath = <<>>
    /\ prev = NoPrev

\* handleItinerary and the decoding at the head of reconstructItinerary
handleItinerary ==
    /\ pc = "recv"
    /\ IF method # "POST"
       THEN /\ status' = StatusMethodNotAllowed
            /\ pc' = "done"
            /\ UNCHANGED <<tickets, coreCalled>>
       ELSE IF ~body.decodes
       THEN /\ status' = StatusBadRequest
            /\ pc' = "done"
            /\ UNCHANGED <<tickets, coreCalled>>
       ELSE /\ tickets' = body.tickets
            /\ coreCalled' = TRUE
            /\ pc' = "call"
            /\ UNCHANGED status
    /\ UNCHANGED <<method, body, coreVars, ret, linearPath, prev>>

\* ReconstructItinerary up to the end of validateTickets
Validate ==
    /\ pc = "call"
    /\ IF Len(tickets) = 0
       THEN ret' = [path |-> <<>>, err |-> ErrNil] /\ pc' = "returned"
       ELSE LET v == validateTickets(tickets) IN
            IF v = "panic" THEN ret' = ret /\ pc' = "panicked"
            ELSE IF v = "dup"
            THEN ret' = [path |-> <<>>, err |-> ErrMultipleSameDestination]
                 /\ pc' = "returned"
            ELSE ret' = ret /\ pc' = "validated"
    /\ UNCHANGED <<method, body, tickets, coreCalled, coreVars, status, linearPath, prev>>

BuildGraph ==
    /\ pc = "validated"
    /\ LET g == buildGraph(tickets) IN
        /\ graph' = g.graph
        /\ outDegree' = g.outDegree
        /\ inDegree' = g.inDegree
    /\ pc' = "graphBuilt"
    /\ UNCHANGED <<method, body, tickets, coreCalled, start, stack, result, iters, used,
                   ret, status, linearPath, prev>>

FindStartingPoint ==
    /\ pc = "graphBuilt"
    /\ \E order \in Perms(Keys(outDegree)) :
          LET s == findStartingPoint(order, outDegree, inDegree) IN
          IF s.err # ErrNil
          THEN /\ ret' = [path |-> <<>>, err |-> s.err]
               /\ pc' = "returned"
               /\ start' = start
          ELSE /\ start' = s.start
               /\ pc' = "startResolved"
               /\ ret' = ret
    /\ UNCHANGED <<method, body, tickets, coreCalled, graph, outDegree, inDegree, stack,
                   result, iters, used, status, linearPath, prev>>

\* validateEndPoints and the first two statements of findPath
ValidateEndPoints ==
    /\ pc = "startResolved"
    /\ \E order \in Perms(Keys(inDegree)) :
          LET e == validateEndPoints(order, <<start>>, outDegree, inDegree) IN
          IF e # ErrNil
          THEN /\ ret' = [path |-> <<>>, err |-> e]
               /\ pc' = "returned"
               /\ stack' = stack
          ELSE /\ stack' = <<start>>
               /\ pc' = "walking"
               /\ ret' = ret
    /\ UNCHANGED <<method, body, tickets, coreCalled, graph, outDegree, inDegree, start,
                   result, iters, used, status, linearPath, prev>>

\* one iteration of the loop of findPath
WalkStep ==
    /\ pc = "walking"
    /\ Len(stack) > 0
    /\ LET w == walkIter([stack |-> stack, graph |-> graph, result |-> result]) IN
        /\ stack' = w.stack
        /\ graph' = w.graph
        /\ result' = w.result
        /\ used' = IF Len(w.stack) > Len(stack)
                   THEN Append(used, <<stack[Len(stack)], w.stack[Len(w.stack)]>>)
                   ELSE used
    /\ iters' = iters + 1
    /\ UNCHANGED <<method, body, pc, tickets, coreCalled, outDegree, inDegree, start, ret,
                   status, linearPath, prev>>

\* the exit of the loop and the reversal
WalkReverse ==
    /\ pc = "walking"
    /\ Len(stack) = 0
    /\ result' = reverse(result)
    /\ pc' = "walked"
    /\ UNCHANGED <<method, body, tickets, coreCalled, graph, outDegree, inDegree, start,
                   stack, iters, used, ret, status, linearPath, prev>>

CycleCheck ==
    /\ pc = "walked"
    /\ ret' = cycleCheck(result)
    /\ pc' = "returned"
    /\ UNCHANGED <<method, body, tickets, coreCalled, coreVars, status, linearPath, prev>>

\* reconstructItinerary after the call of the dispatcher
Respond ==
    /\ pc = "returned"
    /\ IF ret.err # ErrNil
       THEN /\ status' = IF isBadRequestError(ret.err)
                         THEN StatusBadRequest ELSE StatusInternalServerError
            /\ linearPath' = linearPath
       ELSE /\ status' = StatusOK
            /\ linearPath' = ret.path
    /\ pc' = "done"
    /\ UNCHANGED <<method, body, tickets, coreCalled, coreVars, ret, prev>>

\* a further request whose ticket list is the last one with two neighbouring
\* tickets exchanged (the same list again when it holds one ticket)
Resubmit ==
    /\ pc = "done"
    /\ coreCalled
    /\ \E i \in 1..Len(tickets) :
          LET j == IF i < Len(tickets) THEN i + 1 ELSE i IN
          /\ Len(tickets) > 1 => i < Len(tickets)
          /\ body' = [decodes |-> TRUE,
                      tickets |-> [tickets EXCEPT ![i] = tickets[j], ![j] = tickets[i]]]
    /\ prev' = ret
    /\ pc' = "recv"
    /\ tickets' = <<>>
    /\ coreCalled' = FALSE
    /\ graph' = EmptyGraph
    /\ outDegree' = EmptyDegree
    /\ inDegree' = EmptyDegree
    /\ start' = NoNode
    /\ stack' = <<>>
    /\ result' = <<>>
    /\ iters' = 0
    /\ used' = <<>>
    /\ ret' = NoReturn
    /\ status' = StatusNone
    /\ linearPath' = <<>>
    /\ UNCHANGED method

Next ==
    \/ handleItinerary
    \/ Validate
    \/ BuildGraph
    \/ FindStartingPoint
    \/ ValidateEndPoints
    \/ WalkStep
    \/ WalkReverse
    \/ CycleCheck
    \/ Respond
    \/ Resubmit

Spec == Init /\ [][Next]_vars

\* ------------------------------------------------- findPath on its own
\* findPath called with any start node on any adjacency structure: the lists
\* are in the order the tickets come, not sorted, and may hold repetitions
InitWalk ==
    /\ method = "POST"
    /\ tickets \in SeqsUpTo([1..2 -> WalkNodes], MaxWalkTickets)
    /\ body = [decodes |-> TRUE, tickets |-> tickets]
    /\ coreCalled = TRUE
    /\ LET a == addTickets(tickets, 1,
                    [graph |-> EmptyGraph, outDegree |-> EmptyDegree,
                     inDegree |-> EmptyDegree])
       IN  /\ graph = a.graph
           /\ outDegree = a.outDegree
           /\ inDegree = a.inDegree
    /\ start \in WalkNodes
    /\ stack = <<start>>
    /\ result = <<>>
    /\ iters = 0
    /\ used = <<>>
    /\ pc = "walking"
    /\ ret = NoReturn
    /\ status = StatusNone
    /\ linearPath = <<>>
    /\ prev = NoPrev

WalkNext == WalkStep \/ WalkReverse

SpecWalk == InitWalk /\ [][WalkNext]_vars /\ WF_vars(WalkNext)

\* ------------------------------------------------------------------ claims
\* ReconstructItinerary has returned to the handler
Returned == coreCalled /\ pc \in {"returned", "done"}

PairKey(t) == <<t[1], t[2]>>

HasDuplicate(tk) ==
    \E i, j \in 1..Len(tk) :
        /\ i < j
        /\ Len(tk[i]) >= 2
        /\ Len(tk[j]) >= 2
        /\ PairKey(tk[i]) = PairKey(tk[j])

OutDeg(tk, n) == Cardinality({i \in 1..Len(tk) : tk[i][1] = n})
InDeg(tk, n) == Cardinality({i \in 1..Len(tk) : tk[i][2] = n})
StartNodes(tk) == {n \in Nodes : OutDeg(tk, n) - InDeg(tk, n) = 1}
EndNodes(tk) == {n \in Nodes : InDeg(tk, n) - OutDeg(tk, n) = 1}
Unbalanced(tk) ==
    {n \in Nodes : OutDeg(tk, n) - InDeg(tk, n) > 1 \/ InDeg(tk, n) - OutDeg(tk, n) > 1}

NodesOf(tk) == {tk[i][1] : i \in 1..Len(tk)} \cup {tk[i][2] : i \in 1..Len(tk)}

RECURSIVE Grow(_, _)
Grow(S, tk) ==
    LET T == S \cup {n \in Nodes : \E i \in 1..Len(tk) :
                        \/ tk[i][1] \in S /\ tk[i][2] = n
                        \/ tk[i][2] \in S /\ tk[i][1] = n}
    IN  IF T = S THEN S ELSE Grow(T, tk)

\* the tickets form one connected graph (edge directions ignored)
Connected(tk) == Len(tk) > 0 /\ Grow({tk[1][1]}, tk) = NodesOf(tk)

Legs(path) == {<<path[i], path[i + 1]>> : i \in 1..(Len(path) - 1)}

\* C1: ReconstructItinerary returns ErrMultipleSameDestination, with no
\* itinerary, exactly when two tickets of the list have the same source and
\* the same destination
C1_DuplicateRejected ==
    Returned =>
        /\ (ret.err = ErrMultipleSameDestination) <=> HasDuplicate(tickets)
        /\ (ret.err = ErrMultipleSameDestination) => ret.path = <<>>

\* the repeated pair is neither adjacent nor at the head of the scan alone, and
\* a ticket sharing only the source or only the destination sits between
C1_Witness ==
    /\ Returned
    /\ ret.err = ErrMultipleSameDestination
    /\ Len(tickets) = 3
    /\ tickets[1] = tickets[3]
    /\ tickets[2] # tickets[1]
    /\ (tickets[2][1] = tickets[1][1] \/ tickets[2][2] = tickets[1][2])

\* C2: on a duplicate-free connected list that is accepted, the legs of the
\* itinerary are exactly the tickets, each exactly once
C2_EveryTicketOnce ==
    (Returned /\ ret.err = ErrNil /\ Len(tickets) > 0
        /\ ~HasDuplicate(tickets) /\ Connected(tickets)) =>
        /\ Len(ret.path) = Len(tickets) + 1
        /\ Legs(ret.path) = {PairKey(tickets[i]) : i \in 1..Len(tickets)}

\* the walk ran into the dead end first: the first ticket it consumed is not
\* the first leg of the itinerary, which loops through the start node
C2_Witness ==
    /\ Returned
    /\ ret.err = ErrNil
    /\ Connected(tickets)
    /\ Len(used) = Len(tickets)
    /\ Len(ret.path) >= 3
    /\ used[1] # <<ret.path[1], ret.path[2]>>
    /\ \E i \in 2..(Len(ret.path) - 1) : ret.path[i] = ret.path[1]

\* C3: an accepted non-empty list yields len(tickets) + 1 stops, the empty list
\* yields no stop
C3_ConservationLaw ==
    (Returned /\ ret.err = ErrNil) =>
        IF Len(tickets) = 0 THEN Len(ret.path) = 0
        ELSE Len(ret.path) = Len(tickets) + 1

\* the degrees of the tickets are those of an open trail
OpenTrailDegrees(tk) ==
    /\ Cardinality(StartNodes(tk)) = 1
    /\ Unbalanced(tk) = {}
    /\ Cardinality(EndNodes(tk)) = 1

\* C4: on a non-empty duplicate-free list, ErrDifferentStartingPoints is
\* returned exactly when the degrees are not those of an open trail
C4_StartErrorIffNotOpenTrail ==
    (Returned /\ Len(tickets) > 0 /\ ~HasDuplicate(tickets)) =>
        ((ret.err = ErrDifferentStartingPoints) <=> ~OpenTrailDegrees(tickets))

\* a closed circuit: every node balanced
C4_Witness ==
    /\ Returned
    /\ Len(tickets) >= 2
    /\ ~HasDuplicate(tickets)
    /\ Connected(tickets)
    /\ \A n \in Nodes : OutDeg(tickets, n) = InDeg(tickets, n)
    /\ ret.err = ErrDifferentStartingPoints

\* C5: an accepted non-empty itinerary starts at the one node with one more
\* ticket out than in and ends at the one node with one more in than out
C5_EndpointsOfItinerary ==
    (Returned /\ ret.err = ErrNil /\ Len(ret.path) > 0) =>
        /\ Cardinality(StartNodes(tickets)) = 1
        /\ Cardinality(EndNodes(tickets)) = 1
        /\ ret.path[1] \in StartNodes(tickets)
        /\ ret.path[Len(ret.path)] \in EndNodes(tickets)
        /\ ret.path[1] # ret.path[Len(ret.path)]

\* the last stop is a node that has tickets out of it
C5_Witness ==
    /\ Returned
    /\ ret.err = ErrNil
    /\ Len(ret.path) >= 3
    /\ OutDeg(tickets, ret.path[Len(ret.path)]) > 0
    /\ InDeg(tickets, ret.path[1]) > 0

\* ------------------------------------------------------------ tie-break
SetOf(s) == {s[i] : i \in 1..Len(s)}
MaxOf(s) == CHOOSE x \in SetOf(s) : \A y \in SetOf(s) : y <= x
MinOf(s) == CHOOSE x \in SetOf(s) : \A y \in SetOf(s) : x <= y

\* the walk is about to choose among several tickets out of the top of the stack
AtChoice ==
    /\ pc = "walking"
    /\ Len(stack) > 0
    /\ Len(graph[stack[Len(stack)]]) > 1

C7_OutcomeOrderIndependent ==
    (Returned /\ prev.err # "none") =>
        /\ ret.err = prev.err
        /\ ret.path = prev.path

\* the tickets differ pairwise, so the list was really reordered, and
\* findStartingPoint breaks early on a node that is one of several keys of
\* outDegree
C7_Witness ==
    /\ Returned
    /\ prev.err # "none"
    /\ Len(tickets) >= 2
    /\ ret.err = ErrDifferentStartingPoints
    /\ ~HasDuplicate(tickets)
    /\ \E n, m \in Nodes :
          /\ n # m
          /\ OutDeg(tickets, n) - InDeg(tickets, n) > 1
          /\ OutDeg(tickets, m) > 0

\* ------------------------------------------------------------ handler
\* C8: 405 for a method other than POST and 400 for a body that does not
\* decode, both without calling the dispatcher; otherwise 200 with the
\* itinerary as linear_path, or 400 for each of the three errors, never 500
C8_HandlerStatus ==
    /\ (method # "POST" \/ ~body.decodes) => ~coreCalled
    /\ status # StatusInternalServerError
    /\ pc = "done" =>
        /\ method # "POST" => status = StatusMethodNotAllowed
        /\ (method = "POST" /\ ~body.decodes) => status = StatusBadRequest
        /\ (method = "POST" /\ body.decodes) =>
            /\ coreCalled
            /\ ret.err = ErrNil => (status = StatusOK /\ linearPath = ret.path)
            /\ ret.err \in {ErrMultipleSameDestination, ErrDifferentStartingPoints,
                            ErrCycleInItinerary} => status = StatusBadRequest

C8_Witness ==
    /\ pc = "done"
    /\ method = "POST"
    /\ body.decodes
    /\ ret.err = ErrDifferentStartingPoints
    /\ status = StatusBadRequest

Count(s, x) == Cardinality({i \in 1..Len(s) : s[i] = x})

RECURSIVE SumLen(_, _)
SumLen(g, S) ==
    IF S = {} THEN 0
    ELSE LET n == CHOOSE x \in S : TRUE IN Len(g[n]) + SumLen(g, S \ {n})

\* an iteration consumes one edge and pushes its destination, or pops one node
IterationShape ==
    (pc = "walking" /\ pc' = "walking") =>
        \/ /\ Len(stack') = Len(stack) + 1
           /\ Len(used') = Len(used) + 1
           /\ SumLen(graph', Nodes) = SumLen(graph, Nodes) - 1
           /\ result' = result
        \/ /\ Len(stack') = Len(stack) - 1
           /\ result' = Append(result, stack[Len(stack)])
           /\ used' = used
           /\ graph' = graph

WalkBounded ==
    /\ \A e \in SetOf(used) : Count(used, e) <= Count(tickets, e)
    /\ iters <= 2 * Len(used) + 1
    /\ iters <= 2 * Len(tickets) + 1
    /\ pc = "walked" => (stack = <<>> /\ iters = 2 * Len(used) + 1)

\* C10: the loop of findPath ends, from any start node on any adjacency
\* structure: each iteration consumes one edge and pushes one node or pops one
\* node, no edge is consumed twice, the stack is empty on exit, and the
\* iterations number 2 * (edges consumed) + 1, at most 2 * len(tickets) + 1
C10_WalkTerminates ==
    /\ [][IterationShape]_vars
    /\ []WalkBounded
    /\ <>(pc = "walked")

\* a finished walk that went round a self-loop on the start node and left a
\* ticket it could not reach
C10_Witness ==
    /\ pc = "walked"
    /\ <<start, start>> \in SetOf(used)
    /\ Len(used) < Len(tickets)
    /\ Len(used) >= 2

\* ------------------------------------------------------------ ticket shape
\* C11: the handler calls the dispatcher only with ticket lists whose tickets
\* all have exactly two elements
C11_ShapeValidatedBeforeCall ==
    coreCalled => \A i \in 1..Len(tickets) : Len(tickets[i]) = 2

\* ------------------------------------------------------------ end points
\* C12: once findStartingPoint has returned a start node, validateEndPoints
\* returns nil in whatever order it ranges over inDegree, and every
\* ErrDifferentStartingPoints returned comes from findStartingPoint
C12_EndPointCheckNeverFails ==
    /\ pc = "startResolved" =>
          \A order \in Perms(Keys(inDegree)) :
              validateEndPoints(order, <<start>>, outDegree, inDegree) = ErrNil
    /\ (pc = "returned" /\ ret.err = ErrDifferentStartingPoints) => start = NoNode

\* the end-point check has passed on a start node that has tickets into it and
\* an end node that has tickets out of it
C12_Witness ==
    /\ pc = "walking"
    /\ iters = 0
    /\ start # NoNode
    /\ inDegree[start] > 0
    /\ \E n \in Nodes : inDegree[n] - outDegree[n] = 1 /\ outDegree[n] > 0

\* ------------------------------------------------------------ legs
\* the nodes a walk from the nodes of S can reach along the tickets
RECURSIVE Reach(_, _)
Reach(S, tk) ==
    LET T == S \cup {n \in Nodes : \E i \in 1..Len(tk) : tk[i][1] \in S /\ tk[i][2] = n}
    IN  IF T = S THEN S ELSE Reach(T, tk)

Trails(tk, s) ==
    {p \in [1..(Len(tk) + 1) -> Nodes] :
        /\ p[1] = s
        /\ Legs(p) = {PairKey(tk[i]) : i \in 1..Len(tk)}
        /\ Cardinality(Legs(p)) = Len(tk)}

\* p comes before q, or is q, comparing stop by stop
LexLeq(p, q) ==
    \/ p = q
    \/ \E k \in 1..Len(p) :
          /\ k <= Len(q)
          /\ p[k] < q[k]
          /\ \A j \in 1..(k - 1) : p[j] = q[j]

====
